---- MODULE Spec2Model ----
(***************************************************************************)
(* OAI-PMH harvesting client of dataset_utils.                             *)
(*                                                                         *)
(* Two implementations of fetch_records are modelled:                      *)
(*   - list_records_download.fetch_records, the paginated harvest          *)
(*     (variant = "paginated"), optionally called from main();             *)
(*   - fetch_records.fetch_records, the single-request variant             *)
(*     (variant = "single"), called directly (as its tests do).            *)
(* The remote server is the environment: it answers each request with any  *)
(* response of Responses.                                                  *)
(*                                                                         *)
(* Further specifications over the same variables:                         *)
(*   SpecSer - extraction of the record fields, the CSV and XML writers;   *)
(*   SpecNs  - utils.strip_namespace;                                      *)
(*   SpecGui - the Run button and task threads of the GUI;                 *)
(*   SpecSel - the subset selection of active_learning_annotation.         *)
(***************************************************************************)
EXTENDS Integers, Sequences, FiniteSets, TLC

VARIABLES
    variant,        \* which fetch_records is running: "paginated" | "single"
    caller,         \* "main" (list_records_download.main) | "direct"
    verb,           \* argument verb
    set_name,       \* argument set_name: NONE or <<string>>
    test_limit,     \* argument test_limit: NONE or <<integer>>
    save_xml,       \* main: answer to "Save as XML?"
    save_csv,       \* main: answer to "Save as CSV?"
    wizard,         \* main: what the user types at the prompts, then the locals
                    \* endpoint_key, verb_key, confirm they become (NONE for a direct call)
    pc,             \* position of fetch_records
    mainpc,         \* position of main ("idle" when the caller is direct)
    params,         \* the query parameters of the next request
    records,        \* the local list `records`
    requests,       \* history: the parameters of every request issued, in order
    served,         \* history: summary of every response received, in order
    served_records, \* history: every record element the server sent as a nested
                    \* oai:record/oai:metadata/pico:record, in sending order
    root,           \* the local `root`: the parsed document of the last response, or NONE
    result,         \* what fetch_records returned (kind "none" until it returns)
    raised,         \* NONE, or <<exception name, exit status>> raised by fetch_records
    stdout,         \* the error lines printed, in order
    files,          \* the output files written by main
    \* --- extraction and serialisation of records (specification SpecSer) ---
    ser_pc,         \* position of the extract / save / re-read pipeline ("idle" elsewhere)
    source,         \* the pico:record elements of a response, in document order
    rec_list,       \* the list of record dictionaries extracted from them
    stylesheet,     \* argument stylesheet of save_to_xml: NONE or <<path>>
    csv_file,       \* the CSV file written: NONE or [header, rows]
    xml_file,       \* the XML file written: NONE or [prolog, root]
    ser_exit,       \* NONE, or <<status>> of the sys.exit a serializer ran into
    reread,         \* per record of the written XML, what a re-extraction finds
    ns_pc,          \* strip_namespace: "idle", "parsed", "stripped", "stripped_twice"
    xml_tree,       \* the element tree as parsed, before any call
    element,        \* the element object that strip_namespace rewrites in place
    before_last,    \* the element as it was before the latest call
    \* --- the GUI of list_records_download_gui.py (specification SpecGui) ---
    run_button,     \* state of the Run button: "normal" | "disabled" ("idle" elsewhere)
    progress_bar,   \* "running" | "stopped"
    threads,        \* the task threads started so far: [pc, how], in starting order
    \* --- active_learning_annotation.py (specification SpecSel) ---
    sel_pc,         \* "called" | "returned" ("idle" elsewhere)
    sel_fn,         \* the function called
    group_sizes,    \* the input DataFrame: the number of rows of each group
    n_samples,      \* argument n_samples: NONE or <<integer>>
    min_samples,    \* argument min_samples_per_group / min_samples_per_class
    strategy,       \* argument strategy of select_meaningful_subset
    subset          \* the DataFrame returned: the rows taken from each group

HarvestVars == <<variant, caller, verb, set_name, test_limit, save_xml, save_csv, wizard, pc,
                 mainpc, params, records, requests, served, served_records, root, result,
                 raised, stdout, files>>

SerVars == <<ser_pc, source, rec_list, stylesheet, csv_file, xml_file, ser_exit, reread>>

NsVars == <<ns_pc, xml_tree, element, before_last>>

GuiVars == <<run_button, progress_bar, threads>>

SelVars == <<sel_pc, sel_fn, group_sizes, n_samples, min_samples, strategy, subset>>

\* The variables of everything but the harvest.
ToolVars == <<SerVars, NsVars, GuiVars, SelVars>>

vars == <<HarvestVars, SerVars, NsVars, GuiVars, SelVars>>

-----------------------------------------------------------------------------
(* Bounds of the model *)

MaxRequests == 3        \* requests the server is asked at most in one harvest
MaxLimit == 2           \* largest test_limit a direct caller passes

(* Program constants *)

HTTP_OK == 200          \* list_records_download.py:77, fetch_records.py:30
TEST_MODE_LIMIT == 20   \* list_records_download.py:263
EXIT_CANCELLED == 0     \* list_records_download.py:258, sys.exit(0)
EXIT_FAILURE == 1       \* list_records_download.py:79,134, sys.exit(1)

-----------------------------------------------------------------------------
(* Values *)

NONE == <<>>
Some(x) == <<x>>

VERBS == {"Identify", "ListIdentifiers", "ListMetadataFormats", "ListSets", "ListRecords"}

SetNames == {NONE, Some("museid")}
DefaultMetadataPrefix == Some("pico")

\* Python truthiness of an optional string / optional integer argument.
TruthyStr(opt) == IF opt = NONE THEN FALSE ELSE opt[1] # ""
TruthyInt(opt) == IF opt = NONE THEN FALSE ELSE opt[1] # 0

\* Record elements a response can carry, by shape:
\*   "nested"    : oai:record / oai:metadata / pico:record
\*   "flat_pico" : a pico:record that is not wrapped in oai:record/oai:metadata
Nested(i) == [shape |-> "nested", id |-> i]
FlatPico(i) == [shape |-> "flat_pico", id |-> i]

\* The record lists a response can carry: none, one, two in either order (the
\* same identifiers can come again on a later page), a flat one before a
\* nested one, and a response in the flat variant only.
Pages == {<<>>, <<Nested("a")>>, <<Nested("a"), Nested("b")>>, <<Nested("b"), Nested("a")>>,
          <<FlatPico("c"), Nested("b")>>, <<FlatPico("c")>>}

\* The resumptionToken element of a response: NONE when the element is absent,
\* otherwise <<text as written in the XML>> ("" for an element with empty text).
TokenElems == {NONE, Some(""), Some("T1"), Some("T2")}

Documents == [elems : Pages, token : TokenElems]

ErrorStatuses == {404, 500}

Responses ==
    [kind : {"http"}, status : ErrorStatuses, doc : {NONE}]
    \cup [kind : {"connection_error"}, status : {0}, doc : {NONE}]
    \cup [kind : {"malformed"}, status : {HTTP_OK}, doc : {NONE}]
    \cup {[kind |-> "http", status |-> HTTP_OK, doc |-> Some(d)] : d \in Documents}

-----------------------------------------------------------------------------
(* Pure helpers of fetch_records *)

\* ElementTree: the .text of an element written with empty text is None.
ElementText(written) == IF written = "" THEN NONE ELSE Some(written)

\* root.find('.//oai:resumptionToken', ns) and its .text
\* (NONE for "no element", otherwise <<text>> with text itself NONE or <<string>>).
FindResumptionToken(doc) ==
    IF doc.token = NONE THEN NONE ELSE Some(ElementText(doc.token[1]))

\* `verb in ["ListRecords", "ListIdentifiers"]`
TakesSetAndPrefix(v) == v \in {"ListRecords", "ListIdentifiers"}

\* The initial parameter dictionary.
InitialParams(v, sname, prefix) ==
    ("verb" :> v)
    @@ (IF TruthyStr(sname) /\ TakesSetAndPrefix(v) THEN ("set" :> sname[1]) ELSE <<>>)
    @@ (IF TruthyStr(prefix) /\ TakesSetAndPrefix(v)
        THEN ("metadataPrefix" :> prefix[1]) ELSE <<>>)

\* The parameter dictionary of a follow-up request, as it goes on the wire
\* (requests does not send a parameter whose value is None). text is the
\* element's .text: NONE or <<string>>.
ResumptionParams_KeepPrefix(text) ==
    ("verb" :> "ListRecords")
    @@ (IF text = NONE THEN <<>> ELSE ("resumptionToken" :> text[1]))
    @@ ("metadataPrefix" :> "pico")

ResumptionParams(text) ==
    ("verb" :> "ListRecords")
    @@ (IF text = NONE THEN <<>> ELSE ("resumptionToken" :> text[1]))

ExtractsRecords_ListSetsToo(v) == v \in {"ListRecords", "ListSets"}

\* `if verb == "ListRecords":` - the branch that extracts records.
ExtractsRecords(v) == v = "ListRecords"

\* `if response.status_code != 200:`
StatusIsError(status) == status # HTTP_OK

PaginationEnds_ElementOnly(tok) == tok = NONE

\* `if resumption_token is None or resumption_token.text is None: break`
PaginationEnds(tok) == IF tok = NONE THEN TRUE ELSE tok[1] = NONE

\* `if test_limit and len(records) >= test_limit:`
LimitReached(limit, recs) == IF TruthyInt(limit) THEN Len(recs) >= limit[1] ELSE FALSE

\* The dictionary appended for one pico:record.
RecordOf(elem) == [identifier |-> elem.id]

AppendRecord_Dedup(recs, elem) ==
    IF \E i \in 1..Len(recs) : recs[i] = RecordOf(elem) THEN recs
    ELSE Append(recs, RecordOf(elem))

\* records.append({...})
AppendRecord(recs, elem) == Append(recs, RecordOf(elem))

\* Paginated variant: root.findall('.//oai:record') followed by
\* record.find('oai:metadata') and metadata.find('pico:record').
IsNestedRecord(elem) == elem.shape = "nested"

\* Single variant: root.findall('.//pico:record') finds every pico:record,
\* wrapped or not.
IsPicoRecord(elem) == elem.shape \in {"nested", "flat_pico"}

\* The record loop of one response: walks the elements in document order,
\* appends the matching ones and returns at once when the limit is reached.
RECURSIVE ExtractLoop(_, _, _, _)
ExtractLoop(elems, recs, limit, nestedOnly) ==
    IF elems = <<>> THEN [records |-> recs, hit |-> FALSE]
    ELSE LET e == Head(elems)
             matches == IF nestedOnly THEN IsNestedRecord(e) ELSE IsPicoRecord(e)
         IN IF ~matches THEN ExtractLoop(Tail(elems), recs, limit, nestedOnly)
            ELSE LET recs2 == AppendRecord(recs, e)
                 IN IF LimitReached(limit, recs2)
                    THEN [records |-> recs2, hit |-> TRUE]
                    ELSE ExtractLoop(Tail(elems), recs2, limit, nestedOnly)

\* History helper: the nested record elements of a document, in document order.
NestedElems(doc) == SelectSeq(doc.elems, LAMBDA e : e.shape = "nested")

NoResult == [kind |-> "none", value |-> NONE]

\* ET.tostring(root, encoding="unicode"): the text of the parsed tree.
ET_tostring(tree) == [text |-> "xml", tree |-> tree]

\* The serializer pipeline is not running.
SerIdle ==
    /\ ser_pc = "idle"
    /\ source = <<>>
    /\ rec_list = <<>>
    /\ stylesheet = NONE
    /\ csv_file = NONE
    /\ xml_file = NONE
    /\ ser_exit = NONE
    /\ reread = <<>>

\* strip_namespace is not running.
NsIdle ==
    /\ ns_pc = "idle"
    /\ xml_tree = NONE
    /\ element = NONE
    /\ before_last = NONE

\* The GUI is not running.
GuiIdle ==
    /\ run_button = "idle"
    /\ progress_bar = "stopped"
    /\ threads = <<>>

\* No subset selection is running.
SelIdle ==
    /\ sel_pc = "idle"
    /\ sel_fn = "none"
    /\ group_sizes = <<>>
    /\ n_samples = NONE
    /\ min_samples = 0
    /\ strategy = "stratified"
    /\ subset = NONE

-----------------------------------------------------------------------------
(* Initial states: the arguments of one call *)

Limits == {NONE} \cup {Some(k) : k \in 0..MaxLimit}

\* The dictionaries ENDPOINTS and VERBS of list_records_download.py.
ENDPOINT_KEYS == {"a", "b", "c"}
VERB_OF_KEY ==
    [k \in {"1", "2", "3", "4", "5"} |->
        CASE k = "1" -> "Identify"
          [] k = "2" -> "ListIdentifiers"
          [] k = "3" -> "ListMetadataFormats"
          [] k = "4" -> "ListSets"
          [] k = "5" -> "ListRecords"]

\* The local `verb` of main before `verb = VERBS[verb_key]` has run.
UNBOUND == "<unbound>"

\* What the user types, after .strip() / .lower(): nothing, a valid answer,
\* an invalid one; and whether the directory typed exists.
WizardInputs ==
    [endpoint_key : {"", "a", "z"},
     verb_key : {"", "1", "2", "3", "4", "5", "9"},
     dir_exists : BOOLEAN,
     confirm : {"", "y", "n"}]

\* input(...).strip() or default
OrDefault(typed, default) == IF typed = "" THEN default ELSE typed

EndpointKey(w) == OrDefault(w.endpoint_key, "a")
VerbKey(w) == OrDefault(w.verb_key, "5")

ConfirmProceeds_Always(w) == TRUE

\* confirm = input(...).strip().lower() or "y"; not (confirm != "y")
ConfirmProceeds(w) == OrDefault(w.confirm, "y") = "y"

\* The locals after `input(...).strip() or default`.
Answered(w) ==
    [endpoint_key |-> EndpointKey(w), verb_key |-> VerbKey(w),
     dir_exists |-> w.dir_exists, confirm |-> OrDefault(w.confirm, "y")]

\* The verb main passes to fetch_records.
VerbChosen(w) ==
    IF EndpointKey(w) \in ENDPOINT_KEYS /\ VerbKey(w) \in DOMAIN VERB_OF_KEY
    THEN VERB_OF_KEY[VerbKey(w)] ELSE UNBOUND

WizardLine(text, status) == [text |-> text, code |-> status]

\* The checks of main in their order: NONE when main goes on to the fetch,
\* otherwise <<the line printed and the status of sys.exit>>.
WizardRejects(w) ==
    IF EndpointKey(w) \notin ENDPOINT_KEYS
    THEN Some(WizardLine("Invalid endpoint key. Exiting.", EXIT_FAILURE))
    ELSE IF VerbKey(w) \notin DOMAIN VERB_OF_KEY
    THEN Some(WizardLine("Invalid verb key. Exiting.", EXIT_FAILURE))
    ELSE IF ~w.dir_exists
    THEN Some(WizardLine("Directory does not exist. Exiting.", EXIT_FAILURE))
    ELSE IF ~ConfirmProceeds(w)
    THEN Some(WizardLine("Operation canceled.", EXIT_CANCELLED))
    ELSE NONE

Init ==
    /\ variant \in {"paginated", "single"}
    /\ caller \in {"main", "direct"}
    /\ caller = "main" => variant = "paginated"
    /\ wizard \in IF caller = "main" THEN {Some(w) : w \in WizardInputs} ELSE {NONE}
    /\ verb \in IF caller = "main" THEN {VerbChosen(wizard[1])} ELSE VERBS
    /\ set_name \in SetNames
    /\ save_xml \in BOOLEAN
    /\ save_csv \in BOOLEAN
    /\ caller = "direct" => (~save_xml /\ ~save_csv)
    /\ test_limit \in IF caller = "main" THEN {NONE, Some(TEST_MODE_LIMIT)} ELSE Limits
    /\ (caller = "main" /\ verb # "ListRecords") => test_limit = NONE
    /\ pc = IF caller = "main" THEN "not_called" ELSE "called"
    /\ mainpc = IF caller = "main" THEN "started" ELSE "idle"
    /\ params = <<>>
    /\ records = <<>>
    /\ requests = <<>>
    /\ served = <<>>
    /\ served_records = <<>>
    /\ root = NONE
    /\ result = NoResult
    /\ raised = NONE
    /\ stdout = <<>>
    /\ files = {}
    /\ SerIdle
    /\ NsIdle
    /\ GuiIdle
    /\ SelIdle

-----------------------------------------------------------------------------
(* What every request does to the histories *)

TokenOf(resp) == IF resp.doc = NONE THEN NONE ELSE resp.doc[1].token

Summary(resp) == [kind |-> resp.kind, status |-> resp.status, token |-> TokenOf(resp)]

\* requests.get(endpoint, params=params) answered by resp
Exchange(resp) ==
    /\ Len(requests) < MaxRequests
    /\ requests' = Append(requests, params)
    /\ served' = Append(served, Summary(resp))
    /\ served_records' = IF resp.doc = NONE THEN served_records
                         ELSE served_records \o NestedElems(resp.doc[1])
    /\ root' = resp.doc

AfterError_Retry == "loop"

\* Where fetch_records goes after printing an error: sys.exit(1).
AfterError == "exited"

\* (a fetch_records that printed the error and returned its list instead)
SysExit_ReturnsRecords(line) ==
    /\ stdout' = Append(stdout, line)
    /\ pc' = "returned"
    /\ result' = [kind |-> "records", value |-> records]
    /\ UNCHANGED <<records, raised, mainpc, params, files>>

\* sys.exit(1) inside fetch_records: SystemExit leaves fetch_records and, when
\* main is the caller, leaves main as well (nothing catches it).
SysExit(line) ==
    /\ stdout' = Append(stdout, line)
    /\ pc' = AfterError
    /\ raised' = IF AfterError = "exited" THEN Some(<<"SystemExit", EXIT_FAILURE>>) ELSE raised
    /\ mainpc' = IF caller = "main" /\ AfterError = "exited" THEN "exited" ELSE mainpc
    /\ UNCHANGED <<records, result, params, files>>

\* The line printed for a non-200 status / for a caught exception.
StatusLine(status) == [text |-> "Error: Unable to fetch data. HTTP Status Code", code |-> status]
ExceptionLine(what) == [text |-> "Error during fetching data", code |-> what]

Args == <<variant, caller, verb, set_name, test_limit, save_xml, save_csv, wizard>>

-----------------------------------------------------------------------------
(* list_records_download.fetch_records *)

\* records = []; params = {...}
LRD_Start ==
    /\ variant = "paginated" /\ pc = "called"
    /\ params' = InitialParams(verb, set_name, DefaultMetadataPrefix)
    /\ records' = <<>>
    /\ pc' = "loop"
    /\ UNCHANGED <<ToolVars, Args, mainpc, requests, served, served_records, root, result,
                   raised, stdout, files>>

\* response.status_code != 200
LRD_HttpError ==
    /\ variant = "paginated" /\ pc = "loop"
    /\ \E resp \in Responses :
        /\ resp.kind = "http" /\ StatusIsError(resp.status)
        /\ Exchange(resp)
        /\ SysExit(StatusLine(resp.status))
    /\ UNCHANGED <<ToolVars, Args>>

\* requests.get raises (connection failure): caught by `except Exception`
LRD_ConnectionError ==
    /\ variant = "paginated" /\ pc = "loop"
    /\ \E resp \in Responses :
        /\ resp.kind = "connection_error"
        /\ Exchange(resp)
        /\ SysExit(ExceptionLine("ConnectionError"))
    /\ UNCHANGED <<ToolVars, Args>>

\* ET.fromstring raises ParseError: caught by `except Exception`
LRD_ParseError ==
    /\ variant = "paginated" /\ pc = "loop"
    /\ \E resp \in Responses :
        /\ resp.kind = "malformed" /\ ~StatusIsError(resp.status)
        /\ Exchange(resp)
        /\ SysExit(ExceptionLine("ParseError"))
    /\ UNCHANGED <<ToolVars, Args>>

OkDocs == {resp \in Responses : resp.kind = "http" /\ ~StatusIsError(resp.status)
                                 /\ resp.doc # NONE}

\* A ListRecords page during which the test limit is reached: return records
LRD_PageLimit ==
    /\ variant = "paginated" /\ pc = "loop" /\ ExtractsRecords(verb)
    /\ \E resp \in OkDocs :
        LET ext == ExtractLoop(resp.doc[1].elems, records, test_limit, TRUE)
        IN /\ ext.hit
           /\ Exchange(resp)
           /\ records' = ext.records
           /\ result' = [kind |-> "records", value |-> ext.records]
           /\ pc' = "returned"
           /\ stdout' = Append(stdout, [text |-> "Test limit reached. Stopping fetch.",
                                        code |-> Len(ext.records)])
    /\ UNCHANGED <<ToolVars, Args, mainpc, params, raised, files>>

\* A ListRecords page without (non-empty) resumption token: break; return records
LRD_PageLast ==
    /\ variant = "paginated" /\ pc = "loop" /\ ExtractsRecords(verb)
    /\ \E resp \in OkDocs :
        LET ext == ExtractLoop(resp.doc[1].elems, records, test_limit, TRUE)
        IN /\ ~ext.hit
           /\ PaginationEnds(FindResumptionToken(resp.doc[1]))
           /\ Exchange(resp)
           /\ records' = ext.records
           /\ result' = [kind |-> "records", value |-> ext.records]
           /\ pc' = "returned"
    /\ UNCHANGED <<ToolVars, Args, mainpc, params, raised, stdout, files>>

\* A ListRecords page with a resumption token: next iteration with new params
LRD_PageNext ==
    /\ variant = "paginated" /\ pc = "loop" /\ ExtractsRecords(verb)
    /\ \E resp \in OkDocs :
        LET ext == ExtractLoop(resp.doc[1].elems, records, test_limit, TRUE)
            tok == FindResumptionToken(resp.doc[1])
        IN /\ ~ext.hit
           /\ ~PaginationEnds(tok)
           /\ Exchange(resp)
           /\ records' = ext.records
           /\ params' = ResumptionParams(tok[1])
           /\ pc' = "loop"
    /\ UNCHANGED <<ToolVars, Args, mainpc, result, raised, stdout, files>>

\* Any other verb: return ET.tostring(root, encoding="unicode")
LRD_Raw ==
    /\ variant = "paginated" /\ pc = "loop" /\ ~ExtractsRecords(verb)
    /\ \E resp \in OkDocs :
        /\ Exchange(resp)
        /\ result' = [kind |-> "raw", value |-> ET_tostring(resp.doc[1])]
        /\ pc' = "returned"
    /\ UNCHANGED <<ToolVars, Args, mainpc, params, records, raised, stdout, files>>

-----------------------------------------------------------------------------
(* fetch_records.fetch_records: one request, no loop *)

FR_Start ==
    /\ variant = "single" /\ pc = "called"
    /\ params' = InitialParams(verb, set_name, DefaultMetadataPrefix)
    /\ records' = <<>>
    /\ pc' = "loop"
    /\ UNCHANGED <<ToolVars, Args, mainpc, requests, served, served_records, root, result,
                   raised, stdout, files>>

FR_HttpError ==
    /\ variant = "single" /\ pc = "loop"
    /\ \E resp \in Responses :
        /\ resp.kind = "http" /\ StatusIsError(resp.status)
        /\ Exchange(resp)
        /\ SysExit(StatusLine(resp.status))
    /\ UNCHANGED <<ToolVars, Args>>

FR_ConnectionError_Returns ==
    /\ variant = "single" /\ pc = "loop"
    /\ \E resp \in Responses :
        /\ resp.kind = "connection_error"
        /\ Exchange(resp)
        /\ stdout' = Append(stdout, ExceptionLine("ConnectionError"))
        /\ pc' = "returned"
        /\ result' = [kind |-> "records", value |-> records]
    /\ UNCHANGED <<ToolVars, Args, records, raised, mainpc, params, files>>

\* requests.get raises (connection failure): caught by `except Exception`
FR_ConnectionError ==
    /\ variant = "single" /\ pc = "loop"
    /\ \E resp \in Responses :
        /\ resp.kind = "connection_error"
        /\ Exchange(resp)
        /\ SysExit(ExceptionLine("ConnectionError"))
    /\ UNCHANGED <<ToolVars, Args>>

FR_ParseError ==
    /\ variant = "single" /\ pc = "loop"
    /\ \E resp \in Responses :
        /\ resp.kind = "malformed" /\ ~StatusIsError(resp.status)
        /\ Exchange(resp)
        /\ SysExit(ExceptionLine("ParseError"))
    /\ UNCHANGED <<ToolVars, Args>>

\* verb == "ListRecords": the records of the one response (cut at the limit)
FR_ListRecords ==
    /\ variant = "single" /\ pc = "loop" /\ ExtractsRecords(verb)
    /\ \E resp \in OkDocs :
        LET ext == ExtractLoop(resp.doc[1].elems, records, test_limit, FALSE)
        IN /\ Exchange(resp)
           /\ records' = ext.records
           /\ result' = [kind |-> "records", value |-> ext.records]
           /\ pc' = "returned"
           /\ stdout' = IF ext.hit
                        THEN Append(stdout, [text |-> "Test limit reached. Stopping fetch.",
                                             code |-> Len(ext.records)])
                        ELSE stdout
    /\ UNCHANGED <<ToolVars, Args, mainpc, params, raised, files>>

FR_Raw ==
    /\ variant = "single" /\ pc = "loop" /\ ~ExtractsRecords(verb)
    /\ \E resp \in OkDocs :
        /\ Exchange(resp)
        /\ result' = [kind |-> "raw", value |-> ET_tostring(resp.doc[1])]
        /\ pc' = "returned"
    /\ UNCHANGED <<ToolVars, Args, mainpc, params, records, raised, stdout, files>>

-----------------------------------------------------------------------------
(* list_records_download.main *)

FetchState == <<params, records, requests, served, served_records, root, result>>

\* Steps 1 to 7 and the confirmation: the prompts are answered and main
\* either leaves through sys.exit or goes on to the fetch.
MainWizard ==
    /\ caller = "main" /\ mainpc = "started"
    /\ LET rejected == WizardRejects(wizard[1])
       IN IF rejected = NONE
          THEN /\ mainpc' = "confirmed"
               /\ UNCHANGED <<raised, stdout>>
          ELSE /\ mainpc' = "exited"
               /\ raised' = Some(<<"SystemExit", rejected[1].code>>)
               /\ stdout' = Append(stdout, rejected[1])
    /\ wizard' = Some(Answered(wizard[1]))
    /\ UNCHANGED <<ToolVars, variant, caller, verb, set_name, test_limit, save_xml, save_csv,
                   FetchState, pc, files>>

\* records = fetch_records(...) / raw_output = fetch_records(...)
MainCallFetch ==
    /\ caller = "main" /\ mainpc = "confirmed"
    /\ pc' = "called"
    /\ mainpc' = "fetching"
    /\ UNCHANGED <<ToolVars, Args, FetchState, raised, stdout, files>>

\* if save_xml: save_to_xml(records, <output_file>.xml)
MainSaveXml ==
    /\ mainpc = "fetching" /\ pc = "returned" /\ verb = "ListRecords"
    /\ files' = IF save_xml THEN files \cup {"xml"} ELSE files
    /\ mainpc' = "xml_step_done"
    /\ UNCHANGED <<ToolVars, Args, FetchState, pc, raised, stdout>>

\* if save_csv: save_to_csv(records, <output_file>.csv)
MainSaveCsv ==
    /\ mainpc = "xml_step_done"
    /\ files' = IF save_csv THEN files \cup {"csv"} ELSE files
    /\ mainpc' = "completed"
    /\ UNCHANGED <<ToolVars, Args, FetchState, pc, raised, stdout>>

\* else-branch: if save_xml: save_raw_output(raw_output, ...) - a name that
\* list_records_download.py never defines, so the call raises NameError.
MainSaveRaw ==
    /\ mainpc = "fetching" /\ pc = "returned" /\ verb # "ListRecords"
    /\ IF save_xml
       THEN /\ mainpc' = "crashed"
            /\ raised' = Some(<<"NameError", EXIT_FAILURE>>)
       ELSE /\ mainpc' = "completed"
            /\ UNCHANGED raised
    /\ UNCHANGED <<ToolVars, Args, FetchState, pc, stdout, files>>

-----------------------------------------------------------------------------

Next ==
    \/ LRD_Start
    \/ LRD_HttpError
    \/ LRD_ConnectionError
    \/ LRD_ParseError
    \/ LRD_PageLimit
    \/ LRD_PageLast
    \/ LRD_PageNext
    \/ LRD_Raw
    \/ FR_Start
    \/ FR_HttpError
    \/ FR_ConnectionError
    \/ FR_ParseError
    \/ FR_ListRecords
    \/ FR_Raw
    \/ MainWizard
    \/ MainCallFetch
    \/ MainSaveXml
    \/ MainSaveCsv
    \/ MainSaveRaw

Spec == Init /\ [][Next]_vars

-----------------------------------------------------------------------------
(* Extraction of the fields of one record, and the serializers              *)
(*                                                                         *)
(* A text is a sequence of characters, with a run of characters other than *)
(* ";" and " " written as one item. A Python string value is <<text>> and   *)
(* None is NONE, so that "" (<<<<>>>>) and None differ. In the harvest      *)
(* above RecordOf abbreviates a record dictionary by its identifier; here  *)
(* the dictionary has its five fields.                                     *)

MaxRecords == 2         \* record elements of the response that is serialised

PyStr(text) == <<text>>

\* The literal "; " of the join and of the split.
DELIM == <<";", " ">>

\* A pico:record element: for each dc tag the written texts of its children
\* with that tag, in document order.
Pico(ids, titles, descs, types, subjects) ==
    [identifier |-> ids, title |-> titles, description |-> descs,
     type |-> types, subject |-> subjects]

\* Elements a response can carry: the scenario of the specification; one with
\* no child at all; one whose children all have empty text; one with repeated
\* title and type; one with an empty value beside a non-empty one; one whose
\* single subject contains the delimiter.
SourceElems ==
    { Pico(<<(<<"1">>)>>, <<(<<"Title">>)>>, <<(<<"Description">>)>>, <<(<<"Type1">>)>>,
           <<(<<"Art">>), (<<"History">>)>>),
      Pico(<<>>, <<>>, <<>>, <<>>, <<>>),
      Pico(<<(<<>>)>>, <<(<<>>)>>, <<(<<>>)>>, <<(<<>>)>>, <<(<<>>)>>),
      Pico(<<(<<"2">>)>>, <<(<<"Title">>), (<<"Other">>)>>, <<>>,
           <<(<<"Type1">>), (<<"Type2">>)>>, <<(<<"Art">>)>>),
      Pico(<<(<<"3">>)>>, <<(<<"Title">>)>>, <<(<<"Description">>)>>,
           <<(<<"Type1">>), (<<>>)>>, <<(<<>>), (<<"Art">>)>>),
      Pico(<<(<<"4">>)>>, <<(<<"Title">>)>>, <<(<<"Description">>)>>, <<(<<"Type1">>)>>,
           <<(<<"Art", ";", " ", "History">>)>>) }

RECURSIVE ListsUpTo(_, _)
ListsUpTo(S, n) ==
    IF n = 0 THEN {<<>>}
    ELSE LET shorter == ListsUpTo(S, n - 1)
         IN shorter \cup {Append(l, x) : l \in {t \in shorter : Len(t) = n - 1}, x \in S}

Stylesheets == {NONE, Some("style.xsl")}

\* element.text of an element as ElementTree parses it: None for empty text.
TextOf(written) == IF written = <<>> THEN NONE ELSE PyStr(written)

\* `x.text if x is not None else ""`, x the first child with the tag.
FirstText(children) == IF children = <<>> THEN PyStr(<<>>) ELSE TextOf(children[1])

\* `subject.text or ""`
TextOrEmpty(written) == IF TextOf(written) = NONE THEN <<>> ELSE TextOf(written)[1]

\* "; ".join(values)
RECURSIVE Join(_)
Join(values) ==
    IF values = <<>> THEN <<>>
    ELSE IF Len(values) = 1 THEN values[1]
    ELSE values[1] \o DELIM \o Join(Tail(values))

JoinedTexts_FirstOnly(children) ==
    IF children = <<>> THEN PyStr(<<>>) ELSE PyStr(TextOrEmpty(children[1]))

\* "; ".join(subject.text or "" for subject in subjects if subject is not None)
JoinedTexts(children) ==
    PyStr(Join([i \in 1..Len(children) |-> TextOrEmpty(children[i])]))

\* The dictionary appended for one pico:record.
ExtractFields(elem) ==
    [identifier |-> FirstText(elem.identifier),
     title |-> FirstText(elem.title),
     description |-> FirstText(elem.description),
     type |-> JoinedTexts(elem.type),
     subject |-> JoinedTexts(elem.subject)]

Range(f) == {f[i] : i \in DOMAIN f}

\* fieldnames of the two CSV writers
FIELDNAMES_LRD == <<"identifier", "title", "description", "type", "subject">>
FIELDNAMES_SR == <<"title", "description", "type", "subject">>

\* The csv module writes None as the empty string.
CsvCell(value) == IF value = NONE THEN <<>> ELSE value[1]

\* DictWriter.writerow raises ValueError for a dictionary with a key that is
\* not in fieldnames (extrasaction='raise').
RowRaises(fieldnames, rec) == ~(DOMAIN rec \subseteq Range(fieldnames))

CsvRow(fieldnames, rec) == [j \in 1..Len(fieldnames) |-> CsvCell(rec[fieldnames[j]])]

\* The rows written before the first record that raises (all, if none does).
RECURSIVE CsvRows(_, _)
CsvRows(fieldnames, list) ==
    IF list = <<>> THEN <<>>
    ELSE IF RowRaises(fieldnames, Head(list)) THEN <<>>
    ELSE <<CsvRow(fieldnames, Head(list))>> \o CsvRows(fieldnames, Tail(list))

\* save_to_csv: the file it leaves and the exit status it ends with.
SaveToCsv(fieldnames, list) ==
    [file |-> [header |-> fieldnames, rows |-> CsvRows(fieldnames, list)],
     exit |-> IF \E i \in 1..Len(list) : RowRaises(fieldnames, list[i])
              THEN Some(EXIT_FAILURE) ELSE NONE]

\* Position of the first "; " in a text, 0 when there is none.
FirstDelim(text) ==
    LET hits == {i \in 1..(Len(text) - 1) : text[i] = DELIM[1] /\ text[i + 1] = DELIM[2]}
    IN IF hits = {} THEN 0 ELSE CHOOSE i \in hits : \A j \in hits : i <= j

\* value.split("; ")
RECURSIVE Split(_)
Split(text) ==
    LET i == FirstDelim(text)
    IN IF i = 0 THEN <<text>>
       ELSE <<SubSeq(text, 1, i - 1)>> \o Split(SubSeq(text, i + 2, Len(text)))

\* Python truthiness of a field value (None and "" are false).
TruthyValue(value) == IF value = NONE THEN FALSE ELSE value[1] # <<>>

\* The order of record.items(): the insertion order of the dictionary.
FIELD_ORDER == <<"identifier", "title", "description", "type", "subject">>

\* The child elements save_to_xml makes for one (key, value) of a record.
ChildrenOfField(key, value) ==
    IF key \in {"type", "subject"} /\ TruthyValue(value)
    THEN LET items == Split(value[1])
         IN [i \in 1..Len(items) |-> [tag |-> key, text |-> PyStr(items[i])]]
    ELSE <<[tag |-> key, text |-> value]>>

RECURSIVE ChildrenOfRecord(_, _)
ChildrenOfRecord(rec, keys) ==
    IF keys = <<>> THEN <<>>
    ELSE ChildrenOfField(Head(keys), rec[Head(keys)]) \o ChildrenOfRecord(rec, Tail(keys))

\* ET.tostring / parseString / toprettyxml: the text of an element as it
\* stands in the file (None and "" both give an empty element).
WrittenText(text) == IF text = NONE THEN <<>> ELSE text[1]

WrittenChildren(children) ==
    [i \in 1..Len(children) |-> [tag |-> children[i].tag,
                                 written |-> WrittenText(children[i].text)]]

\* root = ET.Element("ListRecords") with one "record" per record
XmlRoot(list) ==
    [tag |-> "ListRecords",
     children |-> [i \in 1..Len(list) |->
                      [tag |-> "record",
                       children |-> WrittenChildren(ChildrenOfRecord(list[i], FIELD_ORDER))]]]

\* The first line of dom.toprettyxml(indent="  "), called without encoding.
MinidomDeclaration == "<?xml version=\"1.0\" ?>"

\* The declaration that pretty_xml.replace(...) looks for.
SearchedDeclaration == "<?xml version=\"1.0\" encoding=\"UTF-8\"?>"

StylesheetDeclaration(path) == "<?xml-stylesheet type=\"text/xsl\" href=\"" \o path \o "\"?>"

\* pretty_xml.replace(old, old + "\n" + pi) on the lines before the root.
RECURSIVE ReplaceLine(_, _, _)
ReplaceLine(lines, old, pi) ==
    IF lines = <<>> THEN <<>>
    ELSE (IF Head(lines) = old THEN <<old, pi>> ELSE <<Head(lines)>>)
         \o ReplaceLine(Tail(lines), old, pi)

\* The lines of the file that precede the root element.
Prolog(sheet) ==
    IF TruthyStr(sheet)
    THEN ReplaceLine(<<MinidomDeclaration>>, SearchedDeclaration,
                     StylesheetDeclaration(sheet[1]))
    ELSE <<MinidomDeclaration>>

\* save_to_xml: the file it writes.
SaveToXml(list, sheet) == [prolog |-> Prolog(sheet), root |-> XmlRoot(list)]

\* Reading a written record back with the rules of the extractor, the
\* children looked up by their (namespace-free) tag.
TextsWithTag(children, tag) ==
    LET sel == SelectSeq(children, LAMBDA c : c.tag = tag)
    IN [i \in 1..Len(sel) |-> sel[i].written]

ReadBack(recordElem) ==
    LET elem == Pico(TextsWithTag(recordElem.children, "identifier"),
                     TextsWithTag(recordElem.children, "title"),
                     TextsWithTag(recordElem.children, "description"),
                     TextsWithTag(recordElem.children, "type"),
                     TextsWithTag(recordElem.children, "subject"))
    IN [fields |-> ExtractFields(elem),
        type |-> [i \in 1..Len(elem.type) |-> TextOrEmpty(elem.type[i])],
        subject |-> [i \in 1..Len(elem.subject) |-> TextOrEmpty(elem.subject[i])]]

HarvestIdle ==
    /\ variant = "paginated" /\ caller = "direct" /\ verb = "ListRecords"
    /\ set_name = NONE /\ test_limit = NONE /\ save_xml = FALSE /\ save_csv = FALSE
    /\ wizard = NONE
    /\ pc = "idle" /\ mainpc = "idle"
    /\ params = <<>> /\ records = <<>> /\ requests = <<>> /\ served = <<>>
    /\ served_records = <<>> /\ root = NONE /\ result = NoResult /\ raised = NONE
    /\ stdout = <<>> /\ files = {}

InitSer ==
    /\ HarvestIdle
    /\ NsIdle
    /\ GuiIdle
    /\ SelIdle
    /\ ser_pc = "parsed"
    /\ source \in ListsUpTo(SourceElems, MaxRecords)
    /\ stylesheet \in Stylesheets
    /\ rec_list = <<>>
    /\ csv_file = NONE
    /\ xml_file = NONE
    /\ ser_exit = NONE
    /\ reread = <<>>

\* The record loop of fetch_records over the pico:record elements.
Ser_Extract ==
    /\ ser_pc = "parsed"
    /\ rec_list' = [i \in 1..Len(source) |-> ExtractFields(source[i])]
    /\ ser_pc' = "extracted"
    /\ UNCHANGED <<HarvestVars, NsVars, GuiVars, SelVars, source, stylesheet, csv_file, xml_file, ser_exit, reread>>

\* list_records_download.save_to_csv(records, output_file)
LRD_SaveToCsv ==
    /\ ser_pc = "extracted"
    /\ LET out == SaveToCsv(FIELDNAMES_LRD, rec_list)
       IN csv_file' = Some(out.file) /\ ser_exit' = out.exit
    /\ ser_pc' = "lrd_csv_saved"
    /\ UNCHANGED <<HarvestVars, NsVars, GuiVars, SelVars, source, rec_list, stylesheet, xml_file, reread>>

\* save_records.save_to_csv(records, output_file)
SR_SaveToCsv ==
    /\ ser_pc = "extracted"
    /\ LET out == SaveToCsv(FIELDNAMES_SR, rec_list)
       IN csv_file' = Some(out.file) /\ ser_exit' = out.exit
    /\ ser_pc' = "sr_csv_saved"
    /\ UNCHANGED <<HarvestVars, NsVars, GuiVars, SelVars, source, rec_list, stylesheet, xml_file, reread>>

\* list_records_download.save_to_xml(records, output_file, stylesheet)
LRD_SaveToXml ==
    /\ ser_pc = "extracted"
    /\ xml_file' = Some(SaveToXml(rec_list, stylesheet))
    /\ ser_pc' = "lrd_xml_saved"
    /\ UNCHANGED <<HarvestVars, NsVars, GuiVars, SelVars, source, rec_list, stylesheet, csv_file, ser_exit, reread>>

\* save_records.save_to_xml(records, output_file, stylesheet): the same code
SR_SaveToXml ==
    /\ ser_pc = "extracted"
    /\ xml_file' = Some(SaveToXml(rec_list, stylesheet))
    /\ ser_pc' = "sr_xml_saved"
    /\ UNCHANGED <<HarvestVars, NsVars, GuiVars, SelVars, source, rec_list, stylesheet, csv_file, ser_exit, reread>>

\* The written XML read back, record by record.
Ser_ReadBack ==
    /\ ser_pc \in {"lrd_xml_saved", "sr_xml_saved"}
    /\ reread' = [i \in 1..Len(xml_file[1].root.children) |->
                     ReadBack(xml_file[1].root.children[i])]
    /\ ser_pc' = "read_back"
    /\ UNCHANGED <<HarvestVars, NsVars, GuiVars, SelVars, source, rec_list, stylesheet, csv_file, xml_file, ser_exit>>

NextSer ==
    \/ Ser_Extract
    \/ LRD_SaveToCsv
    \/ SR_SaveToCsv
    \/ LRD_SaveToXml
    \/ SR_SaveToXml
    \/ Ser_ReadBack

SpecSer == InitSer /\ [][NextSer]_vars

-----------------------------------------------------------------------------
(* utils.strip_namespace *)

MaxChildren == 2        \* children of the root of a tree

\* ElementTree's name of a qualified element or attribute, "{uri}local", and
\* of an unqualified one, "local"; a name is the sequence of its parts.
QName(uri, local) == <<"{", uri, "}", local>>
LocalName(local) == <<local>>

\* An element: its tag, its attrib dictionary as the sequence of (key, value)
\* in insertion order, its text and its children.
Elem(tag, attrib, text, children) ==
    [tag |-> tag, attrib |-> attrib, text |-> text, children |-> children]

NsTags == {LocalName("root"), QName("u1", "root")}

\* Attribute dictionaries: none; one qualified; two qualified attributes of
\* different namespaces with the same local name beside an unqualified one;
\* xml:lang beside lang; two with different local names.
NsAttribs ==
    { <<>>,
      <<(<<QName("u1", "id"), "1">>)>>,
      <<(<<QName("u2", "id"), "1">>), (<<QName("u3", "id"), "2">>), (<<LocalName("id"), "3">>)>>,
      <<(<<QName("xml", "lang"), "en">>), (<<LocalName("lang"), "it">>)>>,
      <<(<<QName("u1", "id"), "1">>), (<<LocalName("name"), "n">>)>> }

\* Children of the root: the child of the repository's test; an unqualified
\* one with a qualified attribute; one whose attributes collide; one with a
\* child of its own.
NsChildren ==
    { Elem(QName("ns", "child"), <<>>, Some("Value"), <<>>),
      Elem(LocalName("child"), <<(<<QName("u1", "id"), "1">>)>>, NONE, <<>>),
      Elem(QName("u2", "item"),
           <<(<<QName("xml", "lang"), "en">>), (<<LocalName("lang"), "it">>)>>,
           Some("Value"), <<>>),
      Elem(QName("u1", "group"), <<>>, NONE,
           <<Elem(QName("u1", "child"), <<(<<QName("u1", "id"), "1">>)>>,
                  Some("Value"), <<>>)>>) }

Trees ==
    {Elem(t, a, NONE, c) : t \in NsTags, a \in NsAttribs,
                           c \in ListsUpTo(NsChildren, MaxChildren)}

\* '}' in name
HasBrace(name) == \E i \in 1..Len(name) : name[i] = "}"

\* name.split('}', 1)
SplitOnce(name) ==
    IF ~HasBrace(name) THEN <<name>>
    ELSE LET i == CHOOSE m \in 1..Len(name) :
                      /\ name[m] = "}"
                      /\ \A j \in 1..(m - 1) : name[j] # "}"
         IN <<SubSeq(name, 1, i - 1), SubSeq(name, i + 1, Len(name))>>

\* if '}' in elem.tag: elem.tag = elem.tag.split('}', 1)[1]
StripTag(tag) == IF HasBrace(tag) THEN SplitOnce(tag)[2] ELSE tag

\* key.split('}', 1)[-1]
StripKey(key) == SplitOnce(key)[Len(SplitOnce(key))]

\* d[key] = value on a dictionary: a present key keeps its place and takes
\* the new value, a new key goes last.
DictSet(items, key, value) ==
    IF \E i \in 1..Len(items) : items[i][1] = key
    THEN [i \in 1..Len(items) |->
             IF items[i][1] = key THEN <<key, value>> ELSE items[i]]
    ELSE Append(items, <<key, value>>)

\* {key.split('}', 1)[-1]: value for key, value in elem.attrib.items()}
RECURSIVE StripAttribInto(_, _)
StripAttribInto(done, items) ==
    IF items = <<>> THEN done
    ELSE StripAttribInto(DictSet(done, StripKey(Head(items)[1]), Head(items)[2]),
                         Tail(items))

StripAttrib(attrib) == StripAttribInto(<<>>, attrib)

\* strip_namespace(element): the loop over element.iter() rewrites the
\* element and every descendant.
RECURSIVE StripNamespace(_)
StripNamespace(elem) ==
    [tag |-> StripTag(elem.tag),
     attrib |-> StripAttrib(elem.attrib),
     text |-> elem.text,
     children |-> [i \in 1..Len(elem.children) |-> StripNamespace(elem.children[i])]]

InitNs ==
    /\ HarvestIdle
    /\ SerIdle
    /\ GuiIdle
    /\ SelIdle
    /\ ns_pc = "parsed"
    /\ xml_tree \in {Some(t) : t \in Trees}
    /\ element = xml_tree
    /\ before_last = NONE

\* strip_namespace(root), and strip_namespace on what it returned
Ns_Strip ==
    /\ ns_pc \in {"parsed", "stripped"}
    /\ before_last' = element
    /\ element' = Some(StripNamespace(element[1]))
    /\ ns_pc' = IF ns_pc = "parsed" THEN "stripped" ELSE "stripped_twice"
    /\ UNCHANGED <<HarvestVars, SerVars, GuiVars, SelVars, xml_tree>>

NextNs == Ns_Strip

SpecNs == InitNs /\ [][NextNs]_vars

-----------------------------------------------------------------------------
(* list_records_download_gui.run_script                                    *)
(*                                                                         *)
(* The main loop runs run_script for a click on the Run button, which Tk   *)
(* delivers only while the button is not disabled. run_script starts one   *)
(* thread for task(); cli_main() inside it returns, raises an Exception    *)
(* or raises SystemExit, or is still running.                              *)

MaxClicks == 3          \* clicks on Run that are delivered

\* What the task reads from the widgets.
Forms ==
    [endpoint_key : {"", "a"}, verb_key : {"", "5"}, output_file : {"", "out"},
     save_xml : BOOLEAN, save_csv : BOOLEAN]

\* not endpoint_key or not verb_key or not output_file
FieldMissing(form) ==
    form.endpoint_key = "" \/ form.verb_key = "" \/ form.output_file = ""

\* not save_xml and not save_csv
NoFormat(form) == ~form.save_xml /\ ~form.save_csv

Thread(position, ending) == [pc |-> position, how |-> ending]

\* Thread i goes on to the given position.
Moves(i, position, ending) ==
    threads' = [threads EXCEPT ![i] = Thread(position, ending)]

Release_Skipped ==
    UNCHANGED <<run_button, progress_bar>>

\* progress_bar.stop(); run_button.config(state=tk.NORMAL)
Release ==
    /\ progress_bar' = "stopped"
    /\ run_button' = "normal"

InitGui ==
    /\ HarvestIdle
    /\ SerIdle
    /\ NsIdle
    /\ SelIdle
    /\ run_button = "normal"
    /\ progress_bar = "stopped"
    /\ threads = <<>>

\* run_script: the button is disabled, the bar started, the thread started.
Gui_Click ==
    /\ run_button = "normal"
    /\ Len(threads) < MaxClicks
    /\ run_button' = "disabled"
    /\ progress_bar' = "running"
    /\ threads' = Append(threads, Thread("validating", "running"))
    /\ UNCHANGED <<HarvestVars, SerVars, NsVars, SelVars>>

\* task: a required field is missing
Task_FieldMissing ==
    /\ \E i \in 1..Len(threads) :
         /\ threads[i].pc = "validating"
         /\ Moves(i, "ended", "field_missing")
    /\ \E form \in Forms : FieldMissing(form)
    /\ Release
    /\ UNCHANGED <<HarvestVars, SerVars, NsVars, SelVars>>

\* task: no output format selected
Task_NoFormat ==
    /\ \E i \in 1..Len(threads) :
         /\ threads[i].pc = "validating"
         /\ Moves(i, "ended", "no_format")
    /\ \E form \in Forms : ~FieldMissing(form) /\ NoFormat(form)
    /\ Release
    /\ UNCHANGED <<HarvestVars, SerVars, NsVars, SelVars>>

\* task: the inputs pass, sys.argv is set and cli_main() is entered
Task_CallCli ==
    /\ \E i \in 1..Len(threads) :
         /\ threads[i].pc = "validating"
         /\ Moves(i, "cli_main", "running")
    /\ \E form \in Forms : ~FieldMissing(form) /\ ~NoFormat(form)
    /\ UNCHANGED <<HarvestVars, SerVars, NsVars, SelVars, run_button, progress_bar>>

\* cli_main() returns: showinfo, then the finally clause
Task_Success ==
    /\ \E i \in 1..Len(threads) :
         /\ threads[i].pc = "cli_main"
         /\ Moves(i, "ended", "success")
    /\ Release
    /\ UNCHANGED <<HarvestVars, SerVars, NsVars, SelVars>>

\* cli_main() raises an Exception: showerror, then the finally clause
Task_Exception ==
    /\ \E i \in 1..Len(threads) :
         /\ threads[i].pc = "cli_main"
         /\ Moves(i, "ended", "exception")
    /\ Release
    /\ UNCHANGED <<HarvestVars, SerVars, NsVars, SelVars>>

\* cli_main() raises SystemExit: `except Exception` does not catch it, the
\* finally clause runs and the exception ends the thread.
Task_SystemExit ==
    /\ \E i \in 1..Len(threads) :
         /\ threads[i].pc = "cli_main"
         /\ Moves(i, "ended", "system_exit")
    /\ Release
    /\ UNCHANGED <<HarvestVars, SerVars, NsVars, SelVars>>

NextGui ==
    \/ Gui_Click
    \/ Task_FieldMissing
    \/ Task_NoFormat
    \/ Task_CallCli
    \/ Task_Success
    \/ Task_Exception
    \/ Task_SystemExit

SpecGui == InitGui /\ [][NextGui]_vars

-----------------------------------------------------------------------------
(* active_learning_annotation: select_balanced_subset and                  *)
(* select_meaningful_subset                                                *)
(*                                                                         *)
(* A DataFrame is the sequence of the sizes of its groups (every group of  *)
(* groupby has at least one row); a returned DataFrame is the number of    *)
(* rows it holds of each group of the input.                               *)

MaxGroups == 2          \* groups of the input DataFrame

GroupSizeSamples == {1, 2, 3, 12}
NSamplesArgs == {NONE, Some(0), Some(1), Some(5), Some(20)}
MinSamplesArgs == {0, 2, 5, 10}
Strategies == {"stratified", "balanced", "random", "other"}

PyMin(a, b) == IF a <= b THEN a ELSE b
PyMax(a, b) == IF a >= b THEN a ELSE b

\* len(df)
RECURSIVE Rows(_)
Rows(sizes) == IF sizes = <<>> THEN 0 ELSE Head(sizes) + Rows(Tail(sizes))

\* group_sizes.min() / min(group_counts)
SmallestGroup(sizes) ==
    CHOOSE m \in Range(sizes) : \A i \in 1..Len(sizes) : m <= sizes[i]

\* int(len(x) * 0.1)
Tenth(n) == n \div 10

\* min_count of select_balanced_subset
MinCount(sizes, n, m) ==
    LET smallest == SmallestGroup(sizes)
        capped == IF TruthyInt(n) THEN PyMin(smallest, n[1]) ELSE smallest
    IN PyMax(capped, m)

\* x.sample(min(len(x), min_count)) for every group x
SelectBalancedSubset(sizes, n, m) ==
    IF sizes = <<>> THEN <<>>
    ELSE [i \in 1..Len(sizes) |-> PyMin(sizes[i], MinCount(sizes, n, m))]

\* strategy 'stratified': the rows sampled from a group. On the sizes and
\* n_samples used here int(n_samples * (len(group_df) / len(df))), computed
\* in floating point, equals the integer quotient.
StratifiedRows(size, total, n, m) ==
    LET wanted == PyMax(m, Tenth(size))
        capped == IF n = NONE THEN wanted ELSE PyMin(wanted, (n[1] * size) \div total)
    IN PyMin(capped, size)

\* strategy 'balanced': n_per_group
NPerGroup(sizes, n, m) ==
    PyMax(IF TruthyInt(n) THEN n[1] \div Len(sizes) ELSE SmallestGroup(sizes), m)

\* strategy 'random': the number of rows sampled from the whole DataFrame
RandomRows(sizes, n) ==
    PyMin(IF n = NONE THEN Tenth(Rows(sizes)) ELSE n[1], Rows(sizes))

\* The ways of taking `rows` rows from the groups.
Draws(sizes, rows) ==
    {d \in [1..Len(sizes) -> 0..rows] :
        /\ \A i \in 1..Len(sizes) : d[i] <= sizes[i]
        /\ Rows(d) = rows}

InitSel ==
    /\ HarvestIdle
    /\ SerIdle
    /\ NsIdle
    /\ GuiIdle
    /\ sel_pc = "called"
    /\ sel_fn \in {"select_balanced_subset", "select_meaningful_subset"}
    /\ group_sizes \in ListsUpTo(GroupSizeSamples, MaxGroups)
    /\ n_samples \in NSamplesArgs
    /\ min_samples \in MinSamplesArgs
    /\ strategy \in IF sel_fn = "select_meaningful_subset" THEN Strategies ELSE {"stratified"}
    /\ subset = NONE

Returns(df) ==
    /\ subset' = Some(df)
    /\ sel_pc' = "returned"
    /\ UNCHANGED <<HarvestVars, SerVars, NsVars, GuiVars,
                   sel_fn, group_sizes, n_samples, min_samples, strategy>>

\* select_balanced_subset(df, ..., n_samples, min_samples_per_group)
Sel_BalancedSubset ==
    /\ sel_pc = "called" /\ sel_fn = "select_balanced_subset"
    /\ Returns(SelectBalancedSubset(group_sizes, n_samples, min_samples))

\* select_meaningful_subset: df is None or df.empty
Sel_EmptyInput ==
    /\ sel_pc = "called" /\ sel_fn = "select_meaningful_subset"
    /\ group_sizes = <<>>
    /\ Returns(<<>>)

Sel_Stratified ==
    /\ sel_pc = "called" /\ sel_fn = "select_meaningful_subset"
    /\ group_sizes # <<>> /\ strategy = "stratified"
    /\ Returns([i \in 1..Len(group_sizes) |->
                   StratifiedRows(group_sizes[i], Rows(group_sizes), n_samples, min_samples)])

Sel_Balanced ==
    /\ sel_pc = "called" /\ sel_fn = "select_meaningful_subset"
    /\ group_sizes # <<>> /\ strategy = "balanced"
    /\ Returns([i \in 1..Len(group_sizes) |->
                   PyMin(NPerGroup(group_sizes, n_samples, min_samples), group_sizes[i])])

Sel_Random ==
    /\ sel_pc = "called" /\ sel_fn = "select_meaningful_subset"
    /\ group_sizes # <<>> /\ strategy = "random"
    /\ \E d \in Draws(group_sizes, RandomRows(group_sizes, n_samples)) : Returns(d)

\* unknown strategy: the function calls itself with strategy='stratified'
Sel_UnknownStrategy ==
    /\ sel_pc = "called" /\ sel_fn = "select_meaningful_subset"
    /\ group_sizes # <<>> /\ strategy \notin {"stratified", "balanced", "random"}
    /\ strategy' = "stratified"
    /\ UNCHANGED <<HarvestVars, SerVars, NsVars, GuiVars,
                   sel_pc, sel_fn, group_sizes, n_samples, min_samples, subset>>

NextSel ==
    \/ Sel_BalancedSubset
    \/ Sel_EmptyInput
    \/ Sel_Stratified
    \/ Sel_Balanced
    \/ Sel_Random
    \/ Sel_UnknownStrategy

SpecSel == InitSel /\ [][NextSel]_vars

-----------------------------------------------------------------------------
(* Vocabulary of the properties *)

IsListRecordsHarvest == verb = "ListRecords"
IsPaginatedHarvest == variant = "paginated" /\ verb = "ListRecords"

\* Response i was a page: status 200 and a well-formed body.
IsPage(i) == served[i].kind = "http" /\ served[i].status = 200

\* Response i was a failed fetch or an unparsable body.
IsFailure(i) == ~IsPage(i)

\* The page carried a resumptionToken element with non-empty text.
HasToken(i) == IsPage(i) /\ served[i].token \notin {<<>>, <<"">>}

\* The token texts the server has returned so far.
DistinctTokens == {served[i].token[1] : i \in {j \in 1..Len(served) : HasToken(j)}}

\* The records of the nested elements the server has sent, in sending order.
ServedAsRecords == [i \in 1..Len(served_records) |-> [identifier |-> served_records[i].id]]

IsPrefixOf(s, t) == Len(s) <= Len(t) /\ \A i \in 1..Len(s) : s[i] = t[i]

MinOf(a, b) == IF a <= b THEN a ELSE b

\* The number of records the server has made available to the running variant:
\* the nested records of all pages (paginated), or the pico:record elements of
\* the one response (single).
TotalAvailable ==
    IF variant = "paginated" THEN Len(served_records)
    ELSE IF root = NONE THEN 0
    ELSE Len(SelectSeq(root[1].elems, LAMBDA e : e.shape \in {"nested", "flat_pico"}))

-----------------------------------------------------------------------------
\* C1: in a ListRecords harvest the number of requests issued is bounded by
\* the number of distinct resumption tokens the server has returned (plus the
\* first request), so the harvest does not go on requesting when the server
\* repeats a token it has already returned.
C1_RequestsBoundedByDistinctTokens ==
    IsPaginatedHarvest => Len(requests) <= Cardinality(DistinctTokens) + 1

-----------------------------------------------------------------------------
\* C2: in a ListRecords harvest the first request carries no resumptionToken,
\* every later request carries exactly {verb: "ListRecords", resumptionToken: t}
\* with t the token text of the response just before it, and no request
\* carries resumptionToken together with set or metadataPrefix.
C2_ResumptionRequestsCarryOnlyToken ==
    IsListRecordsHarvest =>
        \A i \in 1..Len(requests) :
            /\ i = 1 => "resumptionToken" \notin DOMAIN requests[i]
            /\ i > 1 => /\ DOMAIN requests[i] = {"verb", "resumptionToken"}
                        /\ requests[i]["verb"] = "ListRecords"
                        /\ served[i - 1].token # <<>>
                        /\ requests[i]["resumptionToken"] = served[i - 1].token[1]
            /\ "resumptionToken" \in DOMAIN requests[i]
                  => {"set", "metadataPrefix"} \cap DOMAIN requests[i] = {}

\* Three requests, the first with set and metadataPrefix, the next two with
\* two different tokens.
C2_Witness ==
    /\ IsPaginatedHarvest /\ Len(requests) = 3
    /\ DOMAIN requests[1] = {"verb", "set", "metadataPrefix"}
    /\ requests[2]["resumptionToken"] = "T1"
    /\ requests[3]["resumptionToken"] = "T2"

-----------------------------------------------------------------------------
-----------------------------------------------------------------------------
\* C4: with a record limit k >= 0 a ListRecords harvest never holds more than
\* k records, returns exactly min(k, records available) records, and does not
\* go on requesting once k records are accumulated.
C4_LimitRespectedForEveryK ==
    (IsListRecordsHarvest /\ test_limit # NONE) =>
        /\ Len(records) <= test_limit[1]
        /\ pc = "returned" =>
              Len(result.value) = MinOf(test_limit[1], TotalAvailable)
        /\ (pc = "loop" /\ Len(requests) > 0) => Len(records) < test_limit[1]

-----------------------------------------------------------------------------
\* C5: a response whose resumptionToken element is present with empty text ends
\* pagination exactly as a response without the element: it is the last
\* response, no further request follows, and the harvest returns the records
\* accumulated so far (all records served when no limit cut them).
C5_EmptyTokenEndsPagination ==
    IsPaginatedHarvest =>
        \A i \in 1..Len(served) :
            (IsPage(i) /\ served[i].token \in {<<>>, <<"">>}) =>
                /\ i = Len(requests)
                /\ pc = "returned"
                /\ result.kind = "records"
                /\ IsPrefixOf(result.value, ServedAsRecords)
                /\ ~TruthyInt(test_limit) => result.value = ServedAsRecords

\* A second page with an empty-text token element ended a harvest that had
\* accumulated records.
C5_Witness ==
    /\ IsPaginatedHarvest /\ pc = "returned"
    /\ Len(served) = 2 /\ served[2].token = <<"">>
    /\ Len(result.value) >= 3

-----------------------------------------------------------------------------
\* C6: when the first request of a harvest is answered with a non-success
\* HTTP status, the harvest ends in a failure that reports that status code:
\* the error line printed carries the code and fetch_records leaves through
\* sys.exit; nothing is returned to the caller, no second request is made, and
\* main writes no output file and does not complete.
C6_FirstRequestHttpErrorFails ==
    (Len(served) >= 1 /\ served[1].kind = "http" /\ served[1].status # 200) =>
        /\ Len(requests) = 1
        /\ pc = "exited"
        /\ raised # NONE
        /\ stdout = <<[text |-> "Error: Unable to fetch data. HTTP Status Code",
                       code |-> served[1].status]>>
        /\ result.kind = "none"
        /\ files = {}
        /\ caller = "main" => mainpc = "exited"

\* main asked for both output files and the first answer was HTTP 500.
C6_Witness ==
    /\ caller = "main" /\ save_xml /\ save_csv /\ verb = "ListRecords"
    /\ Len(served) = 1 /\ served[1].status = 500
    /\ mainpc = "exited"

-----------------------------------------------------------------------------
\* C7: a failed fetch (non-success status or connection error) or an
\* unparsable body on any page is fatal: the failing response is the last
\* exchange of the harvest (no retry, no further request) and fetch_records
\* has left without returning.
C7_FailureIsFatal ==
    \A i \in 1..Len(served) :
        IsFailure(i) => /\ Len(requests) = i
                        /\ Len(served) = i
                        /\ pc = "exited"
                        /\ result.kind = "none"

\* The failure came on a later page, after records had been accumulated.
C7_Witness ==
    /\ IsPaginatedHarvest /\ Len(served) = 3
    /\ served[3].kind = "malformed"
    /\ Len(records) >= 2
    /\ pc = "exited"

-----------------------------------------------------------------------------
\* C8 (as stated): a fetch or parse error inside fetch_records comes back to
\* the caller as a failure value, and the core never ends the process.
C8_FailureReturnedAsValue ==
    (\E i \in 1..Len(served) : IsFailure(i)) =>
        /\ raised = NONE
        /\ result.kind = "failure"
        /\ mainpc # "exited"

\* C8 (amended): a fetch or parse error inside fetch_records is not returned
\* as a value: fetch_records prints one error line and calls sys.exit(1), so
\* it raises SystemExit with status 1 and returns nothing; with main as the
\* caller the exit ends main as well, before any file is written.
C8_FailureExitsWithStatus1 ==
    (\E i \in 1..Len(served) : IsFailure(i)) =>
        /\ raised = <<(<<"SystemExit", 1>>)>>
        /\ result.kind = "none"
        /\ Len(stdout) = 1
        /\ caller = "main" => (mainpc = "exited" /\ files = {})

\* main was the caller, wanted a CSV file, and the connection failed on the
\* second request.
C8_Witness ==
    /\ caller = "main" /\ save_csv
    /\ Len(served) = 2 /\ served[2].kind = "connection_error"
    /\ mainpc = "exited"

-----------------------------------------------------------------------------
\* C9: the single-request fetch_records called with verb ListRecords whose
\* request fails (connection error or non-success status) raises SystemExit
\* and returns no value.
C9_SingleVariantRaisesSystemExit ==
    (variant = "single" /\ verb = "ListRecords" /\ Len(served) >= 1
       /\ (served[1].kind = "connection_error"
           \/ (served[1].kind = "http" /\ served[1].status # 200))) =>
        /\ raised # NONE
        /\ raised[1][1] = "SystemExit"
        /\ result.kind = "none"
        /\ pc = "exited"

\* The call of the test: no set_name, and the endpoint cannot be reached.
C9_Witness ==
    /\ variant = "single" /\ verb = "ListRecords" /\ set_name = NONE
    /\ test_limit = NONE
    /\ Len(served) = 1 /\ served[1].kind = "connection_error"
    /\ pc = "exited"

-----------------------------------------------------------------------------
-----------------------------------------------------------------------------
\* C11: a harvest with verb ListRecords or ListIdentifiers and no setName ends
\* in a failure: it never returns a value to its caller.
C11_MissingSetNameIsAnError ==
    (verb \in {"ListRecords", "ListIdentifiers"} /\ set_name = NONE) =>
        /\ pc # "returned"
        /\ result.kind = "none"

-----------------------------------------------------------------------------
\* C14: the record extractor yields the records of a response in either
\* schema variant: a one-page ListRecords harvest without limit returns one
\* record per record element of the page, flat or nested, in document order.
C14_BothSchemaVariantsExtracted ==
    (IsListRecordsHarvest /\ test_limit = NONE /\ pc = "returned" /\ Len(served) = 1) =>
        result.value = [i \in 1..Len(root[1].elems) |-> [identifier |-> root[1].elems[i].id]]

-----------------------------------------------------------------------------
\* C20: a ListIdentifiers harvest is paginated like a ListRecords harvest: it
\* returns a record sequence, and only after a response without a non-empty
\* resumption token.
C20_ListIdentifiersIsPaginated ==
    (verb = "ListIdentifiers" /\ pc = "returned") =>
        /\ result.kind = "records"
        /\ ~HasToken(Len(served))

-----------------------------------------------------------------------------
(* Vocabulary of the serialisation properties *)

Fields == {"identifier", "title", "description", "type", "subject"}

Extracted == ser_pc # "parsed"

\* The text of the first of the children, empty when there is none.
FirstWritten(children) == IF children = <<>> THEN <<>> ELSE children[1]

\* Where the i-th of the texts starts in their "; "-separated concatenation.
RECURSIVE OffsetOf(_, _)
OffsetOf(texts, i) ==
    IF i = 1 THEN 0 ELSE OffsetOf(texts, i - 1) + Len(texts[i - 1]) + Len(DELIM)

\* cell is the texts, in order, with "; " between consecutive ones.
IsJoinOf(cell, texts) ==
    IF texts = <<>> THEN cell = <<>>
    ELSE /\ Len(cell) = OffsetOf(texts, Len(texts)) + Len(texts[Len(texts)])
         /\ \A i \in 1..Len(texts) :
              LET off == OffsetOf(texts, i)
              IN /\ SubSeq(cell, off + 1, off + Len(texts[i])) = texts[i]
                 /\ i < Len(texts) =>
                      SubSeq(cell, off + Len(texts[i]) + 1,
                             off + Len(texts[i]) + Len(DELIM)) = DELIM

ContainsDelim(text) == \E i \in 1..(Len(text) - 1) : SubSeq(text, i, i + 1) = DELIM

-----------------------------------------------------------------------------
\* C12: every extracted record has the five fields and no field value is
\* null, whatever elements are missing or empty in the source.
C12_NoFieldIsNull ==
    Extracted =>
        \A i \in 1..Len(rec_list) :
            /\ DOMAIN rec_list[i] = Fields
            /\ \A k \in Fields : rec_list[i][k] # NONE

\* C13: identifier, title and description are the text of the first matching
\* element; type and subject hold the texts of all their elements in document
\* order, joined by "; " in the record and in the CSV cell.
C13_FirstTextAndJoinedTexts ==
    /\ Extracted =>
         /\ Len(rec_list) = Len(source)
         /\ \A i \in 1..Len(source) :
              /\ \A k \in {"identifier", "title", "description"} :
                   WrittenText(rec_list[i][k]) = FirstWritten(source[i][k])
              /\ \A k \in {"type", "subject"} :
                   /\ rec_list[i][k] # NONE
                   /\ IsJoinOf(rec_list[i][k][1], source[i][k])
    /\ ser_pc = "lrd_csv_saved" =>
         /\ Len(csv_file[1].rows) = Len(source)
         /\ \A i \in 1..Len(source) :
              LET row == csv_file[1].rows[i]
              IN /\ row[1] = FirstWritten(source[i].identifier)
                 /\ row[2] = FirstWritten(source[i].title)
                 /\ row[3] = FirstWritten(source[i].description)
                 /\ IsJoinOf(row[4], source[i].type)
                 /\ IsJoinOf(row[5], source[i].subject)

C13_Witness ==
    /\ ser_pc = "lrd_csv_saved"
    /\ \E i \in 1..Len(source) :
         /\ source[i].subject = <<(<<"Art">>), (<<"History">>)>>
         /\ csv_file[1].rows[i][5] = <<"Art", ";", " ", "History">>
    /\ \E i \in 1..Len(source) :
         /\ Len(source[i].title) = 2
         /\ csv_file[1].rows[i][2] = source[i].title[1]

\* C15: both CSV writers complete without a failure exit and leave the header
\* identifier, title, description, type, subject followed by one row per
\* record, in the order of the list.
C15_CsvHeaderAndOneRowPerRecord ==
    ser_pc \in {"lrd_csv_saved", "sr_csv_saved"} =>
        /\ ser_exit = NONE
        /\ csv_file[1].header = <<"identifier", "title", "description", "type", "subject">>
        /\ Len(csv_file[1].rows) = Len(rec_list)
        /\ \A i \in 1..Len(rec_list) :
             \A j \in 1..Len(csv_file[1].header) :
                csv_file[1].rows[i][j] = WrittenText(rec_list[i][csv_file[1].header[j]])

XmlSaved == ser_pc \in {"lrd_xml_saved", "sr_xml_saved", "read_back"}

\* No type or subject value of the source element contains "; ".
DelimFree(elem) ==
    \A k \in {"type", "subject"} :
        \A j \in 1..Len(elem[k]) : ~ContainsDelim(elem[k][j])

\* C16: the root ListRecords has one record child per input record, in
\* order; in each record type and subject have one child per value of the
\* field, in order, and every other field has exactly one child.
C16_OneChildPerValue ==
    XmlSaved =>
        /\ xml_file[1].root.tag = "ListRecords"
        /\ Len(xml_file[1].root.children) = Len(rec_list)
        /\ \A i \in 1..Len(rec_list) :
             LET rec == xml_file[1].root.children[i]
             IN /\ rec.tag = "record"
                /\ \A k \in {"identifier", "title", "description"} :
                     TextsWithTag(rec.children, k) = <<WrittenText(rec_list[i][k])>>
                /\ DelimFree(source[i]) =>
                     \A k \in {"type", "subject"} :
                        TextsWithTag(rec.children, k) = source[i][k]

\* C17: for records whose type and subject values do not contain "; ",
\* writing the records to XML and extracting the fields again gives back,
\* record by record and field by field, the original values.
C17_XmlRoundTrip ==
    ser_pc = "read_back" =>
        /\ Len(reread) = Len(source)
        /\ \A i \in 1..Len(source) :
             DelimFree(source[i]) =>
                /\ reread[i].type = source[i].type
                /\ reread[i].subject = source[i].subject
                /\ reread[i].fields = rec_list[i]

\* C18: with a stylesheet path the document has an xml-stylesheet instruction
\* for that path right after the XML declaration and before the root; with
\* no stylesheet it has none.
C18_StylesheetInstruction ==
    XmlSaved =>
        LET prolog == xml_file[1].prolog
        IN /\ prolog # <<>>
           /\ prolog[1] = MinidomDeclaration
           /\ IF stylesheet = NONE
              THEN Len(prolog) = 1
              ELSE /\ Len(prolog) = 2
                   /\ prolog[2] = StylesheetDeclaration(stylesheet[1])

-----------------------------------------------------------------------------
(* Vocabulary of the namespace properties *)

\* The local part of a name "{uri}local" or "local".
LocalOf(name) == <<name[Len(name)]>>

RECURSIVE NoNamespaceLeft(_)
NoNamespaceLeft(elem) ==
    /\ ~HasBrace(elem.tag)
    /\ \A j \in 1..Len(elem.attrib) : ~HasBrace(elem.attrib[j][1])
    /\ \A i \in 1..Len(elem.children) : NoNamespaceLeft(elem.children[i])

\* after is before with every name replaced by its local name and nothing
\* else changed: texts, attribute values and their number, the children.
RECURSIVE OnlyNamesRewritten(_, _)
OnlyNamesRewritten(before, after) ==
    /\ after.tag = LocalOf(before.tag)
    /\ after.text = before.text
    /\ Len(after.attrib) = Len(before.attrib)
    /\ \A j \in 1..Len(before.attrib) :
         after.attrib[j] = <<LocalOf(before.attrib[j][1]), before.attrib[j][2]>>
    /\ Len(after.children) = Len(before.children)
    /\ \A i \in 1..Len(before.children) :
         OnlyNamesRewritten(before.children[i], after.children[i])

\* C19: strip_namespace leaves only local names in the tags and the attribute
\* names of the whole tree, keeps the texts, the attribute values, the number
\* of attributes and the structure, and a second application changes nothing.
C19_StripNamespace ==
    /\ ns_pc \in {"stripped", "stripped_twice"} => NoNamespaceLeft(element[1])
    /\ ns_pc = "stripped" => OnlyNamesRewritten(xml_tree[1], element[1])
    /\ ns_pc = "stripped_twice" => element = before_last

-----------------------------------------------------------------------------
(* Vocabulary of the wizard properties *)

\* The answers let main through: both keys valid (or left to their
\* defaults) and the directory exists.
InputsValid(w) ==
    /\ w.endpoint_key \in {"", "a", "b", "c"}
    /\ w.verb_key \in {"", "1", "2", "3", "4", "5"}
    /\ w.dir_exists

Confirmed(w) == w.confirm \in {"", "y"}

\* C22: main issues no request and writes no file unless the endpoint key and
\* the verb key are valid, the directory exists and the user confirmed; a
\* rejected run exits before the fetch starts, with status 0 when it was
\* cancelled at the confirmation and status 1 for an invalid input.
C22_WizardGatesTheFetch ==
    (caller = "main" /\ ~(InputsValid(wizard[1]) /\ Confirmed(wizard[1]))) =>
        /\ requests = <<>>
        /\ files = {}
        /\ pc = "not_called"
        /\ mainpc \in {"started", "exited"}
        /\ mainpc = "exited" =>
             raised = Some(<<"SystemExit",
                             IF InputsValid(wizard[1]) THEN EXIT_CANCELLED ELSE EXIT_FAILURE>>)

C22_Witness ==
    /\ caller = "main" /\ mainpc = "exited"
    /\ InputsValid(wizard[1]) /\ wizard[1].confirm = "n"
    /\ raised = Some(<<"SystemExit", EXIT_CANCELLED>>)
    /\ requests = <<>> /\ files = {}

\* C23: for a verb other than ListRecords with "Save as XML" chosen, main
\* writes the raw response to the .xml path and reaches "Operation completed
\* successfully".
C23_RawOutputSaved ==
    (caller = "main" /\ verb \in VERBS \ {"ListRecords"} /\ save_xml
       /\ pc = "returned" /\ mainpc # "fetching") =>
        /\ mainpc = "completed"
        /\ "xml" \in files

-----------------------------------------------------------------------------
(* Vocabulary of the GUI properties *)

RunningThreads == {i \in 1..Len(threads) : threads[i].pc # "ended"}

\* C21: from a click on Run until its task has ended the Run button stays
\* disabled, so at most one task thread runs at any time; however the task
\* ends, the progress bar is stopped and the button enabled again.
C21_OneTaskAndButtonReleased ==
    /\ Cardinality(RunningThreads) <= 1
    /\ RunningThreads # {} => (run_button = "disabled" /\ progress_bar = "running")
    /\ RunningThreads = {} => (run_button = "normal" /\ progress_bar = "stopped")

C21_Witness ==
    /\ Len(threads) >= 2
    /\ threads[1] = Thread("ended", "system_exit")
    /\ threads[2].pc = "cli_main"
    /\ run_button = "disabled"

-----------------------------------------------------------------------------
(* Vocabulary of the selection properties *)

SameFromEveryGroup(df) == \A i, j \in 1..Len(df) : df[i] = df[j]

\* C24: for every non-empty input and every n_samples and
\* min_samples_per_group, each group contributes the same number of rows to
\* the result of select_balanced_subset.
C24_BalancedSubsetIsBalanced ==
    (sel_fn = "select_balanced_subset" /\ sel_pc = "returned" /\ group_sizes # <<>>) =>
        /\ Len(subset[1]) = Len(group_sizes)
        /\ SameFromEveryGroup(subset[1])

\* C25: select_meaningful_subset returns at most n_samples rows whenever
\* n_samples is given, whatever the strategy, and with strategy 'balanced'
\* every group contributes an equal number of rows.
C25_AtMostNSamples ==
    (sel_fn = "select_meaningful_subset" /\ sel_pc = "returned") =>
        /\ n_samples # NONE => Rows(subset[1]) <= n_samples[1]
        /\ strategy = "balanced" => SameFromEveryGroup(subset[1])

====
